---- MODULE Spec2Model ----
(***************************************************************************)
(* Translation core of the macFUSE loopback file system                    *)
(*   src/LoopbackFS-C/loopback/loopback.c          (FUSE 2 API variant)    *)
(*   src/LoopbackFS/LoopbackFS-libfuse3-C/main.c   (libfuse3 variant)      *)
(*                                                                         *)
(* Each subsystem is modelled with its own specification:                  *)
(*   SpecDir     - the per-handle directory cursor (opendir / readdir /    *)
(*                 releasedir)                                             *)
(*   SpecDirPlus - the same cursor with FUSE_READDIR_PLUS (libfuse3)       *)
(*   SpecStreams - two cursors over one directory, their calls running     *)
(*                 concurrently                                            *)
(*   SpecSetattr - the combined attribute setter (setattr, setattr_x,      *)
(*                 fsetattr_x)                                             *)
(*   SpecXattr   - the extended-attribute namespace mapper                 *)
(*   SpecGetattr - the attribute queries (getattr, fgetattr, getxtimes)    *)
(*   SpecStatfs  - the volume statistics normaliser (statfs)               *)
(*   SpecFallocate - the space preallocator (fallocate)                    *)
(* Host primitives (libc calls) are modelled by their documented effect.   *)
(***************************************************************************)
EXTENDS Integers, Sequences, FiniteSets, TLC

VARIABLES
    dirs,      \* open directory handles: fh -> struct loopback_dirp
    rd,        \* the last readdir call: its arguments, what it emitted
    trav,      \* per handle: the consumer's view of the running traversal
    solo,      \* per handle: the stream its own calls alone would produce
    inflight,  \* per handle with a readdir call in progress: its progress
    file,      \* host attributes of the setter's target
    linkdest,  \* host attributes of the object a symlink target points to
    sreq,      \* the attribute update request delivered to the setter
    scalls,    \* host primitives the setter invoked, in order
    sret,      \* the setter's return status
    spc,       \* "req": request delivered, "done": setter returned
    xhost,     \* host extended attributes of one file, in host order
    xlast,     \* the last xattr call: its arguments and result
    xstored,   \* the last successful store not yet overwritten or removed
    ga,        \* the last attribute query: its host results and its answer
    vfs,       \* the last statfs call: mount option, host results, answer
    fa         \* the last fallocate call: its arguments, host calls, answer

vars == <<dirs, rd, trav, solo, inflight, file, linkdest, sreq, scalls, sret,
          spc, xhost, xlast, xstored, ga, vfs, fa>>

dirVars == <<dirs, rd, trav, solo, inflight>>
attrVars == <<file, linkdest, sreq, scalls, sret, spc>>
xattrVars == <<xhost, xlast, xstored>>
queryVars == <<ga>>
volVars == <<vfs>>
allocVars == <<fa>>

(***************************************************************************)
(* Bounds                                                                  *)
(***************************************************************************)
DirLen == 3
MaxOpenDirs == 1
MaxXattrs == 2

Min(a, b) == IF a < b THEN a ELSE b

(***************************************************************************)
(* Attribute Translator                                                    *)
(***************************************************************************)
\* A struct timespec zero-filled by memset.
ZeroTime == [sec |-> 0, nsec |-> 0]

\* The content of a field nobody assigned and of a buffer the host did not
\* fill: an integer, a struct timespec, a struct stat.
Unset ==
    [int |-> -1, time |-> [sec |-> -1, nsec |-> -1],
     stat |-> [st_ino |-> -1, st_mode |-> -1, st_size |-> -1,
               st_blksize |-> -1]]

\* The answer of a host call that was not made.
NotCalled == [res |-> 1]

\* stat_to_attr: every field is copied as the host reported it; the two
\* extended timestamps are not part of struct stat.
stat_to_attr(stbuf) ==
    [ino |-> stbuf.st_ino, mode |-> stbuf.st_mode, size |-> stbuf.st_size,
     blksize |-> stbuf.st_blksize, btime |-> Unset.time,
     bkuptime |-> Unset.time]

\* The caller's attribute buffer before the call.
NoAttr ==
    [ino |-> Unset.int, mode |-> Unset.int, size |-> Unset.int,
     blksize |-> Unset.int, btime |-> Unset.time, bkuptime |-> Unset.time]

\* The tail of getattr and getattrat: one host call fetches creation time and
\* backup time together; both are copied or both are zero-filled.
xtimes_of_list(attr, list) ==
    IF list.res = -1
    THEN [attr EXCEPT !.btime = ZeroTime, !.bkuptime = ZeroTime]
    ELSE [attr EXCEPT !.btime = list.buf.btimespec,
                      !.bkuptime = list.buf.bkuptimespec]

\* getattr (libfuse3): fstat / fgetattrlist on a handle, lstat / getattrlist
\* without following a final symlink on a path.  host holds what the two
\* host calls answer.
getattr(host, fi, attr) ==
    IF host.stat.res = -1
    THEN [ret |-> -host.stat.errno, attr |-> attr,
          via |-> <<IF fi THEN "fstat" ELSE "lstat">>]
    ELSE [ret |-> 0,
          attr |-> xtimes_of_list(stat_to_attr(host.stat.buf), host.list),
          via |-> IF fi THEN <<"fstat", "fgetattrlist">>
                        ELSE <<"lstat", "getattrlist">>]

\* getattrat (libfuse3): the same relative to a directory descriptor.
getattrat(host, attr) ==
    IF host.stat.res = -1
    THEN [ret |-> -host.stat.errno, attr |-> attr, via |-> <<"fstatat">>]
    ELSE [ret |-> 0,
          attr |-> xtimes_of_list(stat_to_attr(host.stat.buf), host.list),
          via |-> <<"fstatat", "getattrlistat">>]

\* attr->blksize = 0 / stbuf->st_blksize = 0
zero_blksize(attr) == [attr EXCEPT !.blksize = 0]

\* loopback_getattr of the libfuse3 variant.
loopback_getattr3(host, fi) ==
    LET r == getattr(host, fi, NoAttr)
    IN  [r EXCEPT !.attr = zero_blksize(r.attr)]

\* loopback_getattr and loopback_fgetattr of the FUSE 2 variant: lstat or
\* fstat into the caller's struct stat, block size zeroed, -errno on failure.
loopback_getattr(host, fi) ==
    LET stbuf == IF host.stat.res = -1 THEN NoAttr
                 ELSE stat_to_attr(host.stat.buf)
    IN  [ret |-> IF host.stat.res = -1 THEN -host.stat.errno ELSE 0,
         attr |-> zero_blksize(stbuf),
         via |-> <<IF fi THEN "fstat" ELSE "lstat">>]

\* One timestamp of loopback_getxtimes: copied when its own host call
\* succeeded, zero-filled otherwise.
xtime_of_unchecked(r) == r.xtime

xtime_of(r) == IF r.res = 0 THEN r.xtime ELSE ZeroTime

\* loopback_getxtimes (FUSE 2): backup time and creation time are fetched
\* by two separate getattrlist calls; the call always returns 0.
loopback_getxtimes(host) ==
    [ret |-> 0,
     attr |-> [NoAttr EXCEPT !.bkuptime = xtime_of(host.bkup),
                             !.btime = xtime_of(host.crt)],
     via |-> <<"getattrlist", "getattrlist">>]

\* What the host may answer.
HostStatBufs ==
    [st_ino : {7}, st_mode : {33188, 41471}, st_size : {0, 7},
     st_blksize : {512, 4096}]

HostStatResults ==
    {[res |-> 0, errno |-> 0, buf |-> b] : b \in HostStatBufs}
    \cup {[res |-> -1, errno |-> e, buf |-> Unset.stat] : e \in {2, 13}}

HostTimes == {[sec |-> 11, nsec |-> 0], [sec |-> 22, nsec |-> 500]}

HostListResults ==
    {[res |-> 0, buf |-> [btimespec |-> b, bkuptimespec |-> k]] :
        b \in HostTimes, k \in HostTimes}
    \cup {[res |-> -1,
           buf |-> [btimespec |-> Unset.time, bkuptimespec |-> Unset.time]]}

HostXtimeResults ==
    {[res |-> 0, xtime |-> t] : t \in HostTimes}
    \cup {[res |-> -1, xtime |-> Unset.time]}

NoHost ==
    [stat |-> NotCalled, list |-> NotCalled, bkup |-> NotCalled,
     crt |-> NotCalled]

NoQuery == [op |-> "none", fi |-> FALSE, host |-> NoHost, ret |-> 0,
            attr |-> NoAttr, via |-> <<>>]

QueryIdle == ga = NoQuery

Answered(op, fi, host, r) ==
    ga' = [op |-> op, fi |-> fi, host |-> host, ret |-> r.ret,
           attr |-> r.attr, via |-> r.via]

\* loopback_getattr (libfuse3), by path or by handle
Getattr ==
    \E fi \in BOOLEAN, st \in HostStatResults, ls \in HostListResults :
        LET host == [NoHost EXCEPT
                        !.stat = st,
                        !.list = IF st.res = -1 THEN NotCalled ELSE ls]
        IN  Answered("getattr", fi, host, loopback_getattr3(host, fi))

\* loopback_getattr (FUSE 2)
GetattrPath ==
    \E st \in HostStatResults :
        LET host == [NoHost EXCEPT !.stat = st]
        IN  Answered("getattr_path", FALSE, host, loopback_getattr(host, FALSE))

\* loopback_fgetattr (FUSE 2)
FGetattr ==
    \E st \in HostStatResults :
        LET host == [NoHost EXCEPT !.stat = st]
        IN  Answered("fgetattr", TRUE, host, loopback_getattr(host, TRUE))

\* loopback_getxtimes (FUSE 2)
Getxtimes ==
    \E bk \in HostXtimeResults, cr \in HostXtimeResults :
        LET host == [NoHost EXCEPT !.bkup = bk, !.crt = cr]
        IN  Answered("getxtimes", FALSE, host, loopback_getxtimes(host))

(***************************************************************************)
(* Directory Enumerator                                                    *)
(***************************************************************************)
\* The names the host directory holds, in the host's order.
DirNames == <<".", "..", "a", "b", "c", "d", "e">>

\* struct dirent of the i-th entry of the (unmodified) host directory.
DirEntries ==
    [i \in 1..DirLen |->
        [d_name |-> DirNames[i], d_ino |-> 100 + i,
         d_type |-> IF i <= 2 THEN 4 ELSE 8]]

\* d->entry == NULL
NoEntry == 0

\* Host cursor: the number of entries the stream has already returned.
\* telldir reports the position token of the cursor, seekdir restores it.
telldir(dp) == dp
seekdir(loc) == loc
rewinddir == 0

\* readdir(d->dp): the next entry (its index) and the advanced cursor,
\* NULL at the end of the stream.
readdir(d) ==
    IF d.dp < DirLen
    THEN [d EXCEPT !.dp = d.dp + 1, !.entry = d.dp + 1]
    ELSE [d EXCEPT !.entry = NoEntry]

\* loopback_opendir: a fresh stream.
opendir_dirp == [dp |-> rewinddir, entry |-> NoEntry, offset |-> 0]

\* The head of loopback_readdir: rewind, reposition or keep the cursor.
reposition_keep_entry(d, offset) ==
    IF offset = 0
    THEN [d EXCEPT !.dp = rewinddir, !.offset = 0]
    ELSE IF offset # d.offset
    THEN [d EXCEPT !.dp = seekdir(offset - 1), !.offset = offset]
    ELSE d

reposition_unshifted(d, offset) ==
    IF offset = 0
    THEN [dp |-> rewinddir, entry |-> NoEntry, offset |-> 0]
    ELSE IF offset # d.offset
    THEN [dp |-> seekdir(offset), entry |-> NoEntry,
          offset |-> offset]
    ELSE d

reposition(d, offset) ==
    IF offset = 0
    THEN [dp |-> rewinddir, entry |-> NoEntry, offset |-> 0]
    ELSE IF offset # d.offset
    THEN [dp |-> seekdir(offset - 1), entry |-> NoEntry, offset |-> offset]
    ELSE d

\* What fstatat and getattrlistat answer for a directory entry: both
\* succeed, the timestamps are not supplied, or the entry cannot be examined.
EntryHosts == {"ok", "no_xtimes", "no_stat"}

host_entry(e, h) ==
    [NoHost EXCEPT
        !.stat = IF h = "no_stat"
                 THEN [res |-> -1, errno |-> 13, buf |-> Unset.stat]
                 ELSE [res |-> 0, errno |-> 0,
                       buf |-> [st_ino |-> e.d_ino,
                                st_mode |-> e.d_type * 4096 + 420,
                                st_size |-> 0, st_blksize |-> 4096]],
        !.list = IF h = "ok"
                 THEN [res |-> 0,
                       buf |-> [btimespec |-> [sec |-> 11, nsec |-> 0],
                                bkuptimespec |-> [sec |-> 22, nsec |-> 500]]]
                 ELSE IF h = "no_xtimes"
                 THEN [res |-> -1,
                       buf |-> [btimespec |-> Unset.time,
                                bkuptimespec |-> Unset.time]]
                 ELSE NotCalled]

\* enum fuse_readdir_flags of a call, with the host's answers during it.
\* The FUSE 2 readdir has no flags and behaves as the call without PLUS.
ReaddirFlags ==
    {[plus |-> FALSE, host |-> "ok"]}
    \cup {[plus |-> TRUE, host |-> h] : h \in EntryHosts}

\* memset(&attr, 0, sizeof(attr))
ZeroAttr ==
    [ino |-> 0, mode |-> 0, size |-> 0, blksize |-> 0, btime |-> ZeroTime,
     bkuptime |-> ZeroTime]

\* The attributes handed to the filler and whether they are flagged as
\* complete (FUSE_FILL_DIR_PLUS): those of getattrat when PLUS was asked
\* for and getattrat succeeded, else inode number and type of the dirent.
readdir_attr(e, flags) ==
    LET r == getattrat(host_entry(e, flags.host), NoAttr)
        fill_plus == flags.plus /\ r.ret = 0
    IN  IF fill_plus
        THEN [attr |-> r.attr, plus |-> TRUE]
        ELSE [attr |-> [ZeroAttr EXCEPT !.ino = e.d_ino,
                                        !.mode = e.d_type * 4096],
              plus |-> FALSE]

\* The entry handed to the filler: name, attributes, offset, fill flags.
fill_entry(e, a, nextoff) ==
    [name |-> e.d_name, attr |-> a.attr, off |-> nextoff, plus |-> a.plus]

\* The stream as the loop leaves it when the filler reports a full buffer.
on_filler_full_drop(d) == [d EXCEPT !.entry = NoEntry]

on_filler_full_advance(d) ==
    [d EXCEPT !.entry = NoEntry, !.offset = telldir(d.dp) + 1]

on_filler_full(d) == d

\* The stream after the filler took the entry.
on_filler_taken_stale(d, nextoff) == [d EXCEPT !.entry = NoEntry]

on_filler_taken(d, nextoff) == [d EXCEPT !.entry = NoEntry, !.offset = nextoff]

\* One pass through the body of the while(1) loop of loopback_readdir.
\* room is the number of entries the filler still takes before it reports
\* a full buffer; done tells that the pass left the loop.
loop_once(d, room, out, flags) ==
    LET d1 == IF d.entry = NoEntry THEN readdir(d) ELSE d
    IN  IF d1.entry = NoEntry
        THEN [d |-> d1, room |-> room, out |-> out, done |-> TRUE,
              eof |-> TRUE]
        ELSE LET nextoff == telldir(d1.dp) + 1
                 e == fill_entry(DirEntries[d1.entry],
                                 readdir_attr(DirEntries[d1.entry], flags),
                                 nextoff)
             IN  IF room = 0
                 THEN [d |-> on_filler_full(d1), room |-> room,
                       out |-> Append(out, [e |-> e, taken |-> FALSE]),
                       done |-> TRUE, eof |-> FALSE]
                 ELSE [d |-> on_filler_taken(d1, nextoff), room |-> room - 1,
                       out |-> Append(out, [e |-> e, taken |-> TRUE]),
                       done |-> FALSE, eof |-> FALSE]

\* The while(1) loop of loopback_readdir, run to its end.
RECURSIVE readdir_loop(_, _, _, _)
readdir_loop(d, room, out, flags) ==
    LET s == loop_once(d, room, out, flags)
    IN  IF s.done THEN [d |-> s.d, out |-> s.out, eof |-> s.eof]
        ELSE readdir_loop(s.d, s.room, s.out, flags)

\* loopback_readdir as a whole.
loopback_readdir(d, offset, room, flags) ==
    readdir_loop(reposition(d, offset), room, <<>>, flags)

\* The entries of a call's output the consumer accepted.
Taken(out) == SelectSeq(out, LAMBDA x : x.taken)

\* The consumer's bookkeeping of a traversal: the names accepted so far,
\* the offset of the last accepted entry (0: none yet), and whether every
\* call since the traversal's first (offset 0) resumed from that offset.
NoTrav == [acc |-> <<>>, last |-> 0, ok |-> TRUE, eof |-> FALSE]

trav_after(t, offset, out, eof) ==
    LET cont == offset = 0 \/ (t.ok /\ offset = t.last)
        base == IF offset = 0 THEN <<>> ELSE t.acc
        tk == Taken(out)
    IN  IF ~cont
        THEN [acc |-> <<>>, last |-> 0, ok |-> FALSE, eof |-> eof]
        ELSE [acc |-> base \o [i \in 1..Len(tk) |-> tk[i].e.name],
              last |-> IF Len(tk) > 0 THEN tk[Len(tk)].e.off
                       ELSE IF offset = 0 THEN 0 ELSE t.last,
              ok |-> TRUE, eof |-> eof]

\* The record of a call: its arguments, the stream before the call (pre),
\* after the head of the call (head) and at return (post), what was handed
\* to the filler, and whether the loop ended at the end of the stream.
NoCall == [fh |-> 0, offset |-> 0, room |-> 0,
           flags |-> [plus |-> FALSE, host |-> "ok"], pre |-> opendir_dirp,
           head |-> opendir_dirp, post |-> opendir_dirp,
           out |-> <<>>, alone |-> <<>>, eof |-> FALSE]

\* get_dirp: the stream a handle designates.  fi->fh holds the address of
\* the struct loopback_dirp that loopback_opendir allocated for this handle.
get_dirp_static(fh) == 1

get_dirp(fh) == fh

DirInit ==
    /\ dirs = << >>
    /\ rd = NoCall
    /\ trav = << >>
    /\ solo = << >>
    /\ inflight = << >>

\* loopback_opendir for the handle fh.
OpenDirOn(fh) ==
    /\ fh \notin DOMAIN dirs
    /\ dirs' = [h \in DOMAIN dirs \cup {fh} |->
                    IF h = fh THEN opendir_dirp ELSE dirs[h]]
    /\ trav' = [h \in DOMAIN dirs \cup {fh} |->
                    IF h = fh THEN NoTrav ELSE trav[h]]
    /\ solo' = [h \in DOMAIN dirs \cup {fh} |->
                    IF h = fh THEN opendir_dirp ELSE solo[h]]
    /\ UNCHANGED <<rd, inflight>>

\* loopback_readdir on the open handle fh.  solo replays the call on a copy
\* of the stream no other handle's call ever touches.
ReadDirOn(fh, offset, room, flags) ==
    /\ get_dirp(fh) \in DOMAIN dirs
    /\ \E r \in {loopback_readdir(dirs[get_dirp(fh)], offset, room, flags)},
          a \in {loopback_readdir(solo[fh], offset, room, flags)} :
        /\ dirs' = [dirs EXCEPT ![get_dirp(fh)] = r.d]
        /\ rd' = [fh |-> fh, offset |-> offset, room |-> room,
                  flags |-> flags, pre |-> dirs[get_dirp(fh)],
                  head |-> reposition(dirs[get_dirp(fh)], offset),
                  post |-> r.d, out |-> r.out, alone |-> a.out,
                  eof |-> r.eof]
        /\ trav' = [trav EXCEPT
                        ![fh] = trav_after(trav[fh], offset, r.out, r.eof)]
        /\ solo' = [solo EXCEPT ![fh] = a.d]
        /\ UNCHANGED inflight

\* The flags of a call without FUSE_READDIR_PLUS.
NoFlags == [plus |-> FALSE, host |-> "ok"]

\* loopback_opendir
OpenDir == \E fh \in 1..MaxOpenDirs : OpenDirOn(fh)

\* loopback_readdir of the FUSE 2 variant, and of the libfuse3 variant
\* without FUSE_READDIR_PLUS: on an open handle, with any resume offset the
\* host cursor can decode and any point at which the filler reports a full
\* buffer.
ReadDir ==
    \E fh \in DOMAIN dirs, offset \in 0..(DirLen + 1), room \in 0..DirLen :
        ReadDirOn(fh, offset, room, NoFlags)

\* loopback_readdir of the libfuse3 variant, with any flags.
ReadDirPlus ==
    \E fh \in DOMAIN dirs, offset \in 0..(DirLen + 1), room \in 0..DirLen,
       flags \in ReaddirFlags :
        ReadDirOn(fh, offset, room, flags)

\* loopback_releasedir, once no call on the handle is in progress
ReleaseDir ==
    \E fh \in DOMAIN dirs \ DOMAIN inflight :
        /\ dirs' = [h \in DOMAIN dirs \ {fh} |-> dirs[h]]
        /\ trav' = [h \in DOMAIN dirs \ {fh} |-> trav[h]]
        /\ solo' = [h \in DOMAIN dirs \ {fh} |-> solo[h]]
        /\ UNCHANGED <<rd, inflight>>

\* Two handles open on the directory at the same time, each served by its
\* own thread of the session loop: a call on one handle runs statement by
\* statement while a call on the other is in progress.
StreamPair == {1, 2}

OpenStream == \E fh \in StreamPair : OpenDirOn(fh)

\* A thread enters loopback_readdir on a handle with no call in progress and
\* runs the head of the function.
BeginRead ==
    \E fh \in DOMAIN dirs \ DOMAIN inflight, offset \in 0..(DirLen + 1),
       room \in 0..DirLen :
        /\ get_dirp(fh) \in DOMAIN dirs
        /\ dirs' = [dirs EXCEPT
                        ![get_dirp(fh)] = reposition(dirs[get_dirp(fh)], offset)]
        /\ solo' = [solo EXCEPT ![fh] = reposition(solo[fh], offset)]
        /\ inflight' = [h \in DOMAIN inflight \cup {fh} |->
                            IF h = fh
                            THEN [pc |-> "loop", room |-> room,
                                  out |-> <<>>, alone |-> <<>>]
                            ELSE inflight[h]]
        /\ UNCHANGED <<rd, trav>>

\* The thread runs one pass of the loop.
StepRead ==
    \E fh \in DOMAIN inflight :
        /\ inflight[fh].pc = "loop"
        /\ \E s \in {loop_once(dirs[get_dirp(fh)], inflight[fh].room,
                                inflight[fh].out, NoFlags)},
              a \in {loop_once(solo[fh], inflight[fh].room,
                                inflight[fh].alone, NoFlags)} :
            /\ dirs' = [dirs EXCEPT ![get_dirp(fh)] = s.d]
            /\ solo' = [solo EXCEPT ![fh] = a.d]
            /\ inflight' = [inflight EXCEPT
                               ![fh] = [pc |-> IF s.done THEN "return"
                                               ELSE "loop",
                                        room |-> s.room, out |-> s.out,
                                        alone |-> a.out]]
        /\ UNCHANGED <<rd, trav>>

\* The call returns after the pass that left the loop.
ReturnRead ==
    \E fh \in DOMAIN inflight :
        /\ inflight[fh].pc = "return"
        /\ inflight' = [h \in DOMAIN inflight \ {fh} |-> inflight[h]]
        /\ UNCHANGED <<dirs, solo, rd, trav>>

\* One handle, enumerated with extended entries.
OpenOne == OpenDirOn(1)

(***************************************************************************)
(* Combined Attribute Setter                                               *)
(***************************************************************************)
Fields == {"mode", "uid", "gid", "size", "mtime", "atime", "ctime", "btime",
           "bkuptime", "flags"}

\* uid_t uid = -1; gid_t gid = -1;
\* uid_t and gid_t are 32-bit unsigned: -1 converts to the all-ones value
\* 0xFFFFFFFF.  Ids are only stored and compared for equality, so an id is
\* written as the 32-bit two's-complement integer with the same bits.
MinusOne == -1

\* Host error numbers a failing primitive may report (EPERM, EACCES).
Errnos == {1, 13}

\* The steps a setter may take, named by the attribute the host call sets.
Steps == {"mode", "owner", "size", "times", "chgtime", "crtime", "bkuptime",
          "flags"}

\* Order of the steps in loopback_setattr (libfuse3).
setattr_order ==
    <<"mode", "owner", "size", "times", "chgtime", "crtime", "bkuptime",
      "flags">>

\* Order of the steps in loopback_setattr_x and loopback_fsetattr_x.
setattr_x_order ==
    <<"mode", "owner", "size", "times", "crtime", "chgtime", "bkuptime",
      "flags">>

\* gettimeofday(&tv[0], NULL)
gettimeofday == [tv_sec |-> 999, tv_usec |-> 7]

\* struct timespec -> struct timeval as the setter converts it.
timeval(ts) == [tv_sec |-> ts.tv_sec, tv_usec |-> ts.tv_nsec \div 1000]

\* What the host stores for a timeval handed to utimes.
timespec_of(tv) == [tv_sec |-> tv.tv_sec, tv_nsec |-> tv.tv_usec * 1000]

\* The local uid / gid after the two presence tests.
owner_uid(req) == IF "uid" \in req.to_set THEN req.attr.uid ELSE MinusOne
owner_gid(req) == IF "gid" \in req.to_set THEN req.attr.gid ELSE MinusOne

\* The guard of each step.
wants_owner_unconditional(req) == TRUE

wants_owner(req) == (owner_uid(req) # MinusOne) \/ (owner_gid(req) # MinusOne)

wants(k, req) ==
    CASE k = "mode" -> "mode" \in req.to_set
      [] k = "owner" -> wants_owner(req)
      [] k = "size" -> "size" \in req.to_set
      [] k = "times" -> "mtime" \in req.to_set
      [] k = "chgtime" -> "ctime" \in req.to_set
      [] k = "crtime" -> "btime" \in req.to_set
      [] k = "bkuptime" -> "bkuptime" \in req.to_set
      [] k = "flags" -> "flags" \in req.to_set

\* The host function each step calls: handle-based with a handle (fi),
\* else the path-based one the source names.
host_fn(k, fi) ==
    CASE k = "mode" -> IF fi THEN "fchmod" ELSE "lchmod"
      [] k = "owner" -> IF fi THEN "fchown" ELSE "lchown"
      [] k = "size" -> IF fi THEN "ftruncate" ELSE "truncate"
      [] k = "times" -> IF fi THEN "futimes" ELSE "lutimes"
      [] k \in {"chgtime", "crtime", "bkuptime"} ->
            IF fi THEN "fsetattrlist" ELSE "setattrlist"
      [] k = "flags" -> IF fi THEN "fchflags" ELSE "lchflags"

\* The arguments each step passes to the host.
host_args(k, req) ==
    CASE k = "mode" -> <<req.attr.mode>>
      [] k = "owner" -> <<owner_uid(req), owner_gid(req)>>
      [] k = "size" -> <<req.attr.size>>
      [] k = "times" ->
            <<IF "atime" \notin req.to_set THEN gettimeofday
              ELSE timeval(req.attr.atime),
              timeval(req.attr.mtime)>>
      [] k = "chgtime" -> <<req.attr.ctime>>
      [] k = "crtime" -> <<req.attr.btime>>
      [] k = "bkuptime" -> <<req.attr.bkuptime>>
      [] k = "flags" -> <<req.attr.flags>>

\* Whether the host resolves a final symlink of the path it is given.
\* lchmod, lchown, lutimes and lchflags act on the link itself, and so does
\* setattrlist with FSOPT_NOFOLLOW; truncate resolves the link.  A call on
\* a handle acts on the open object.
host_follows(fn) == fn = "truncate"

\* The host's answer: the call of the step the host refuses returns -1 and
\* sets errno, every other call returns 0.  on is the object the host
\* resolved the call to: the target named by the request, or, for a path
\* whose last component is a symlink, the object the link points to.
host_call(k, req) ==
    [fn |-> host_fn(k, req.fi), kind |-> k, args |-> host_args(k, req),
     on |-> IF req.symlink /\ host_follows(host_fn(k, req.fi))
            THEN "linkdest" ELSE "file",
     res |-> IF req.fail = k THEN -1 ELSE 0,
     errno |-> IF req.fail = k THEN req.errno ELSE 0]

\* The effect of a successful host call on the target's attributes.
host_apply(f, c) ==
    CASE c.kind = "mode" -> [f EXCEPT !.mode = c.args[1]]
      [] c.kind = "owner" ->
            [f EXCEPT !.uid = IF c.args[1] = MinusOne THEN @ ELSE c.args[1],
                      !.gid = IF c.args[2] = MinusOne THEN @ ELSE c.args[2]]
      [] c.kind = "size" -> [f EXCEPT !.size = c.args[1]]
      [] c.kind = "times" ->
            [f EXCEPT !.atime = timespec_of(c.args[1]),
                      !.mtime = timespec_of(c.args[2])]
      [] c.kind = "chgtime" -> [f EXCEPT !.ctime = c.args[1]]
      [] c.kind = "crtime" -> [f EXCEPT !.btime = c.args[1]]
      [] c.kind = "bkuptime" -> [f EXCEPT !.bkuptime = c.args[1]]
      [] c.kind = "flags" -> [f EXCEPT !.flags = c.args[1]]

\* The effect of a successful host call on the objects of the host: the
\* request's target (file) and, behind a symlink, the link's destination.
host_apply_on(objs, c) ==
    IF c.on = "linkdest"
    THEN [objs EXCEPT !.linkdest = host_apply(@, c)]
    ELSE [objs EXCEPT !.file = host_apply(@, c)]

\* if (res == -1) return -errno;
step_failed_never(c) == FALSE

step_failed(c) == c.res = -1

\* The body shared by the three setters: each wanted step in turn, stopping
\* at the first host call that fails.
RECURSIVE apply_steps(_, _, _, _)
apply_steps(order, req, objs, calls) ==
    IF order = <<>>
    THEN [objs |-> objs, calls |-> calls, ret |-> 0]
    ELSE LET k == Head(order)
         IN  IF ~wants(k, req)
             THEN apply_steps(Tail(order), req, objs, calls)
             ELSE LET c == host_call(k, req)
                  IN  IF step_failed(c)
                      THEN [objs |-> objs, calls |-> Append(calls, c),
                            ret |-> -c.errno]
                      ELSE apply_steps(Tail(order), req,
                                       IF c.res = 0 THEN host_apply_on(objs, c)
                                       ELSE objs,
                                       Append(calls, c))

loopback_setattr(req, objs) == apply_steps(setattr_order, req, objs, <<>>)

loopback_setattr_x(req, objs) ==
    apply_steps(setattr_x_order, req, objs, <<>>)

loopback_fsetattr_x(req, objs) ==
    apply_steps(setattr_x_order, req, objs, <<>>)

\* The target's attributes before the request.
File0 ==
    [mode |-> 420, uid |-> 0, gid |-> 0, size |-> 10,
     atime |-> [tv_sec |-> 1, tv_nsec |-> 0],
     mtime |-> [tv_sec |-> 2, tv_nsec |-> 0],
     ctime |-> [tv_sec |-> 3, tv_nsec |-> 0],
     btime |-> [tv_sec |-> 4, tv_nsec |-> 0],
     bkuptime |-> [tv_sec |-> 5, tv_nsec |-> 0],
     flags |-> 0]

\* The object a symlink target points to, before the call.
Dest0 ==
    [mode |-> 384, uid |-> 0, gid |-> 0, size |-> 20,
     atime |-> [tv_sec |-> 6, tv_nsec |-> 0],
     mtime |-> [tv_sec |-> 7, tv_nsec |-> 0],
     ctime |-> [tv_sec |-> 8, tv_nsec |-> 0],
     btime |-> [tv_sec |-> 9, tv_nsec |-> 0],
     bkuptime |-> [tv_sec |-> 10, tv_nsec |-> 0],
     flags |-> 0]

Objs0 == [file |-> File0, linkdest |-> Dest0]

\* Values a request may carry.  A field that is not present is never read,
\* so it is held at zero.
IdValues == {501, MinusOne}
AtimeValues == {[tv_sec |-> 100, tv_nsec |-> 5000],
                [tv_sec |-> 100, tv_nsec |-> 5999]}

RequestAttrs(to_set) ==
    {[mode |-> IF "mode" \in to_set THEN 384 ELSE 0,
      uid |-> u, gid |-> g,
      size |-> IF "size" \in to_set THEN 5 ELSE 0,
      atime |-> a,
      mtime |-> IF "mtime" \in to_set THEN [tv_sec |-> 200, tv_nsec |-> 3000]
                ELSE [tv_sec |-> 0, tv_nsec |-> 0],
      ctime |-> IF "ctime" \in to_set THEN [tv_sec |-> 300, tv_nsec |-> 1]
                ELSE [tv_sec |-> 0, tv_nsec |-> 0],
      btime |-> IF "btime" \in to_set THEN [tv_sec |-> 400, tv_nsec |-> 2]
                ELSE [tv_sec |-> 0, tv_nsec |-> 0],
      bkuptime |-> IF "bkuptime" \in to_set THEN [tv_sec |-> 500, tv_nsec |-> 3]
                   ELSE [tv_sec |-> 0, tv_nsec |-> 0],
      flags |-> IF "flags" \in to_set THEN 2 ELSE 0] :
        u \in IF "uid" \in to_set THEN IdValues ELSE {0},
        g \in IF "gid" \in to_set THEN IdValues ELSE {0},
        a \in IF "atime" \in to_set THEN AtimeValues
              ELSE {[tv_sec |-> 0, tv_nsec |-> 0]}}

NoRequest ==
    [to_set |-> {}, fi |-> FALSE, symlink |-> FALSE, fail |-> "none",
     errno |-> 0]

AttrIdle ==
    /\ file = File0
    /\ linkdest = Dest0
    /\ sreq = NoRequest
    /\ scalls = << >>
    /\ sret = 0
    /\ spc = "idle"

\* A request as the session layer delivers it: the present fields, their
\* values, the target selector (fi: an open handle, else the path, whose
\* last component may be a symlink), and the host call, if any, the host is
\* going to refuse.
AttrInit ==
    /\ file = File0
    /\ linkdest = Dest0
    /\ \E to_set \in SUBSET Fields, fi \in BOOLEAN, fail \in Steps \cup {"none"} :
        \E attr \in RequestAttrs(to_set),
           symlink \in IF fi THEN {FALSE} ELSE BOOLEAN,
           errno \in IF fail = "none" THEN {0} ELSE Errnos :
            sreq = [to_set |-> to_set, attr |-> attr, fi |-> fi,
                    symlink |-> symlink, fail |-> fail, errno |-> errno]
    /\ scalls = << >>
    /\ sret = 0
    /\ spc = "req"

Returned(r, who) ==
    /\ file' = r.objs.file
    /\ linkdest' = r.objs.linkdest
    /\ scalls' = r.calls
    /\ sret' = r.ret
    /\ spc' = who
    /\ UNCHANGED sreq

\* loopback_setattr (libfuse3): by handle when fi is given, else by path.
Setattr ==
    /\ spc = "req"
    /\ Returned(loopback_setattr(sreq, [file |-> file, linkdest |-> linkdest]),
             "setattr")

\* loopback_setattr_x (FUSE 2): by path.
SetattrX ==
    /\ spc = "req"
    /\ ~sreq.fi
    /\ Returned(loopback_setattr_x(sreq, [file |-> file, linkdest |-> linkdest]),
             "setattr_x")

\* loopback_fsetattr_x (FUSE 2): by handle.
FSetattrX ==
    /\ spc = "req"
    /\ sreq.fi
    /\ Returned(loopback_fsetattr_x(sreq, [file |-> file, linkdest |-> linkdest]),
             "fsetattr_x")

(***************************************************************************)
(* Xattr Namespace Mapper                                                  *)
(* A C string is the sequence of its bytes, without the terminating NUL.   *)
(***************************************************************************)
NUL == "NUL"

\* "com.apple." and "org.apple."
ComApple == <<"c", "o", "m", ".", "a", "p", "p", "l", "e", ".">>
OrgApple == <<"o", "r", "g", ".", "a", "p", "p", "l", "e", ".">>

\* strncmp(name, prefix, 10) == 0 on a NUL-terminated name.
strncmp_eq(name, prefix) ==
    Len(name) >= Len(prefix) /\ SubSeq(name, 1, Len(prefix)) = prefix

\* The name handed to the host by setxattr, getxattr and removexattr:
\* new_name = "org.apple." followed by name + 10 when name begins com.apple.
xattr_host_name(name) ==
    IF strncmp_eq(name, ComApple)
    THEN OrgApple \o SubSeq(name, Len(ComApple) + 1, Len(name))
    ELSE name

\* Attribute names callers and other host programs use.
XNames == {ComApple \o <<"x">>, OrgApple \o <<"x">>, <<"u", ".", "x">>,
           <<"c", "o", "m", ".", "a", "p", "p", "l", "e", "x">>}
XValues == {<<"v">>, <<"w", "w">>}

\* Host error numbers the xattr primitives report.
XErrno == [ENOSPC |-> 28, ERANGE |-> 34, ENOATTR |-> 93]

\* Index of the host attribute called hn, 0 when there is none.
XIndex(attrs, hn) ==
    IF \E i \in 1..Len(attrs) : attrs[i].name = hn
    THEN CHOOSE i \in 1..Len(attrs) : attrs[i].name = hn
    ELSE 0

\* Host setxattr: replaces the value of an existing attribute, else appends
\* one; the host refuses (ENOSPC) more than MaxXattrs attributes.
host_setxattr(attrs, hn, value) ==
    LET i == XIndex(attrs, hn)
    IN  IF i # 0
        THEN [res |-> 0, errno |-> 0,
              attrs |-> [attrs EXCEPT ![i].value = value]]
        ELSE IF Len(attrs) >= MaxXattrs
        THEN [res |-> -1, errno |-> XErrno.ENOSPC, attrs |-> attrs]
        ELSE [res |-> 0, errno |-> 0,
              attrs |-> Append(attrs, [name |-> hn, value |-> value])]

\* Host getxattr: the value and its size, or ENOATTR.
host_getxattr(attrs, hn) ==
    LET i == XIndex(attrs, hn)
    IN  IF i = 0
        THEN [res |-> -1, errno |-> XErrno.ENOATTR, value |-> <<>>]
        ELSE [res |-> Len(attrs[i].value), errno |-> 0, value |-> attrs[i].value]

\* Host removexattr.
host_removexattr(attrs, hn) ==
    LET i == XIndex(attrs, hn)
    IN  IF i = 0
        THEN [res |-> -1, errno |-> XErrno.ENOATTR, attrs |-> attrs]
        ELSE [res |-> 0, errno |-> 0,
              attrs |-> SubSeq(attrs, 1, i - 1) \o SubSeq(attrs, i + 1, Len(attrs))]

\* The host's name list: each name followed by a NUL byte.
RECURSIVE host_name_list(_)
host_name_list(attrs) ==
    IF attrs = <<>> THEN <<>>
    ELSE Head(attrs).name \o <<NUL>> \o host_name_list(Tail(attrs))

\* Host listxattr(path, list, size): with a null list or a size of zero it
\* reports the size of the name list and writes nothing; with a buffer too
\* small it fails (ERANGE); else it writes the name list at the start of the
\* buffer and reports its size.
host_listxattr(attrs, buf) ==
    LET names == host_name_list(attrs)
    IN  IF buf.ptr = "NULL" \/ buf.size = 0
        THEN [res |-> Len(names), errno |-> 0, mem |-> buf.mem]
        ELSE IF buf.size < Len(names)
        THEN [res |-> -1, errno |-> XErrno.ERANGE, mem |-> buf.mem]
        ELSE [res |-> Len(names), errno |-> 0,
              mem |-> names \o SubSeq(buf.mem, Len(names) + 1, Len(buf.mem))]

\* Index of the first NUL of m at or after curr, 0 when m holds none.
nul_at(m, curr) ==
    IF \E i \in curr..Len(m) : m[i] = NUL
    THEN CHOOSE i \in curr..Len(m) :
            m[i] = NUL /\ \A j \in curr..(i - 1) : m[j] # NUL
    ELSE 0

\* The prefix loopback_listxattr tests each listed name for, and the three
\* bytes it stores over the name's first three when the test succeeds.
list_test_prefix == ComApple
list_store_bytes == <<"o", "r", "g">>

\* The do-while loop of loopback_listxattr over the memory at list.  A
\* strlen that finds no NUL in the memory at hand runs past it (fault).
RECURSIVE list_rewrite(_, _, _, _, _)
list_rewrite(m, curr, len, res, written) ==
    LET z == nul_at(m, curr)
    IN  IF z = 0
        THEN [mem |-> m, read |-> TRUE, written |-> written, fault |-> TRUE]
        ELSE LET thislen == (z - curr) + 1
                 hit == strncmp_eq(SubSeq(m, curr, z - 1), list_test_prefix)
                 m1 == IF hit
                       THEN [i \in 1..Len(m) |->
                                IF i \in curr..(curr + 2)
                                THEN list_store_bytes[i - curr + 1] ELSE m[i]]
                       ELSE m
             IN  IF len + thislen < res
                 THEN list_rewrite(m1, curr + thislen, len + thislen, res,
                                   written \/ hit)
                 ELSE [mem |-> m1, read |-> TRUE, written |-> written \/ hit,
                       fault |-> FALSE]

\* The test that guards the rewrite loop: if (res > 0 && list).
list_rewrite_guard(res, buf) == res > 0 /\ buf.ptr # "NULL"

\* loopback_listxattr
loopback_listxattr(attrs, buf) ==
    LET h == host_listxattr(attrs, buf)
    IN  IF h.res = -1
        THEN [ret |-> -h.errno, mem |-> h.mem, read |-> FALSE,
              written |-> FALSE, fault |-> FALSE]
        ELSE IF list_rewrite_guard(h.res, buf)
        THEN LET r == list_rewrite(h.mem, 1, 0, h.res, FALSE)
             IN  [ret |-> h.res, mem |-> r.mem, read |-> r.read,
                  written |-> r.written, fault |-> r.fault]
        ELSE [ret |-> h.res, mem |-> h.mem, read |-> FALSE,
              written |-> FALSE, fault |-> FALSE]

\* loopback_setxattr
loopback_setxattr(attrs, name, value) ==
    LET h == host_setxattr(attrs, xattr_host_name(name), value)
    IN  [ret |-> IF h.res = -1 THEN -h.errno ELSE 0, attrs |-> h.attrs]

\* loopback_getxattr
loopback_getxattr(attrs, name) ==
    LET h == host_getxattr(attrs, xattr_host_name(name))
    IN  [ret |-> IF h.res = -1 THEN -h.errno ELSE h.res, value |-> h.value]

\* loopback_removexattr
loopback_removexattr(attrs, name) ==
    LET h == host_removexattr(attrs, xattr_host_name(name))
    IN  [ret |-> IF h.res = -1 THEN -h.errno ELSE 0, attrs |-> h.attrs]

\* Buffers a caller may pass to list.  A real buffer holds size bytes of
\* its own, not yet written.  The memory behind a non-null pointer given
\* with size 0 is not the call's to use: it may be unmapped (no byte), hold
\* a name list left by an earlier call, or hold bytes without any NUL.
XGarbage == "?"
XBuffers ==
    {[ptr |-> "NULL", size |-> 0, mem |-> <<>>]}
    \cup {[ptr |-> "buf", size |-> n, mem |-> [i \in 1..n |-> XGarbage]] :
            n \in {4, 12 * MaxXattrs}}
    \cup {[ptr |-> "buf", size |-> 0, mem |-> m] :
            m \in {<<>>, ComApple \o <<"x", NUL>>, <<XGarbage, XGarbage>>}}

NoBuffer == [ptr |-> "NULL", size |-> 0, mem |-> <<>>]

NoXCall == [op |-> "none", name |-> <<>>, value |-> <<>>, buf |-> NoBuffer,
            ret |-> 0, out |-> <<>>, read |-> FALSE, written |-> FALSE,
            fault |-> FALSE]

XattrIdle ==
    /\ xhost = << >>
    /\ xlast = NoXCall
    /\ xstored = << >>

\* The file's host attributes at mount time: none, or one that a host
\* program stored under a com.apple. name of its own.
XattrInit ==
    /\ xhost \in {<< >>, <<[name |-> ComApple \o <<"x">>, value |-> <<"v">>]>>}
    /\ xlast = NoXCall
    /\ xstored = << >>

SetXattr ==
    \E name \in XNames, value \in XValues :
        LET r == loopback_setxattr(xhost, name, value)
        IN  /\ xhost' = r.attrs
            /\ xlast' = [NoXCall EXCEPT !.op = "setxattr", !.name = name,
                                        !.value = value, !.ret = r.ret]
            /\ xstored' = IF r.ret = 0
                          THEN <<[name |-> name, value |-> value]>>
                          ELSE xstored

GetXattr ==
    \E name \in XNames :
        LET r == loopback_getxattr(xhost, name)
        IN  /\ xlast' = [NoXCall EXCEPT !.op = "getxattr", !.name = name,
                                        !.ret = r.ret, !.out = r.value]
            /\ UNCHANGED <<xhost, xstored>>

ListXattr ==
    \E buf \in XBuffers :
        LET r == loopback_listxattr(xhost, buf)
        IN  /\ xlast' = [NoXCall EXCEPT !.op = "listxattr", !.buf = buf,
                                        !.ret = r.ret, !.out = r.mem,
                                        !.read = r.read, !.written = r.written,
                                        !.fault = r.fault]
            /\ UNCHANGED <<xhost, xstored>>

RemoveXattr ==
    \E name \in XNames :
        LET r == loopback_removexattr(xhost, name)
        IN  /\ xhost' = r.attrs
            /\ xlast' = [NoXCall EXCEPT !.op = "removexattr", !.name = name,
                                        !.ret = r.ret]
            /\ xstored' = IF r.ret = 0 THEN << >> ELSE xstored

(***************************************************************************)
(* Volume Stats Normaliser                                                 *)
(***************************************************************************)
\* Widths of the model's integers.  struct statfs holds its block counts in
\* 64-bit unsigned fields and f_bsize in a 32-bit unsigned field, and
\* loopback.blocksize is a uint32_t; the model keeps the two widths apart
\* and scales them down: a count has CountBits bits, a block size SizeBits.
CountBits == 6
SizeBits == 3

\* The value an unsigned field of the given width holds.
wrap(x, bits) == x % (2 ^ bits)

\* loopback.blocksize = 4096, the value the option parser starts from: a
\* power of two, halfway up the field at the model's width.
default_blocksize == 2 ^ (SizeBits - 1)

\* fuse_opt_parse with { "fsblocksize=%u", ... }: the option's value when the
\* option is given, whatever unsigned value that is, else the default.
fuse_opt_parse(opt) ==
    IF opt.given THEN wrap(opt.value, SizeBits) ELSE default_blocksize

MountOptions ==
    {[given |-> FALSE, value |-> 0]}
    \cup {[given |-> TRUE, value |-> v] : v \in 0 .. (2 ^ SizeBits - 1)}

\* count * f_bsize / loopback.blocksize: the product is formed in the width
\* of the count (uint64_t * uint32_t), then divided (blocksize # 0).
rescale(count, bsize, blocksize) ==
    wrap(count * bsize, CountBits) \div blocksize

\* The four assignments of loopback_statfs, in statement order: each reads
\* the record as the statements before it left it.
statfs_rescaled(stbuf, blocksize) ==
    LET s1 == [stbuf EXCEPT
                  !.f_blocks = rescale(@, stbuf.f_bsize, blocksize)]
        s2 == [s1 EXCEPT !.f_bavail = rescale(@, s1.f_bsize, blocksize)]
        s3 == [s2 EXCEPT !.f_bfree = rescale(@, s2.f_bsize, blocksize)]
    IN  [s3 EXCEPT !.f_bsize = blocksize]

\* A struct statfs the host did not fill.
NoStatfs == [f_blocks |-> 0, f_bavail |-> 0, f_bfree |-> 0, f_bsize |-> 0]

\* loopback_statfs / loopback_statfs_x.  A zero loopback.blocksize makes the
\* three divisions divide by zero, which is undefined: the build either
\* traps (the process is killed, no answer is given) or, where the divide
\* instruction does not trap, yields zero quotients.
loopback_statfs(host, blocksize, divzero) ==
    IF host.res = -1
    THEN [ret |-> -host.errno, stbuf |-> NoStatfs, trap |-> FALSE]
    ELSE IF blocksize = 0
    THEN IF divzero = "trap"
         THEN [ret |-> 0, stbuf |-> NoStatfs, trap |-> TRUE]
         ELSE [ret |-> 0,
               stbuf |-> [host.stbuf EXCEPT !.f_blocks = 0, !.f_bavail = 0,
                                            !.f_bfree = 0, !.f_bsize = 0],
               trap |-> FALSE]
    ELSE [ret |-> 0, stbuf |-> statfs_rescaled(host.stbuf, blocksize),
          trap |-> FALSE]

\* What statfs of the host may answer: any total count and block size the
\* fields can hold, with free and available counts within the total.
HostStatfs ==
    {[res |-> 0, errno |-> 0,
      stbuf |-> [f_blocks |-> n, f_bavail |-> a, f_bfree |-> f,
                 f_bsize |-> b]] :
        n \in 0 .. (2 ^ CountBits - 1), b \in 0 .. (2 ^ SizeBits - 1),
        f \in {0, 1}, a \in {0, 1}}

HostStatfsResults ==
    {[h EXCEPT !.stbuf.f_bfree = IF h.stbuf.f_bfree = 0 THEN 0
                                 ELSE h.stbuf.f_blocks,
               !.stbuf.f_bavail =
                    IF h.stbuf.f_bfree = 0 \/ h.stbuf.f_bavail = 0 THEN 0
                    ELSE h.stbuf.f_blocks \div 2] : h \in HostStatfs}
    \cup {[res |-> -1, errno |-> e, stbuf |-> NoStatfs] : e \in {2, 5}}

NoStatfsCall ==
    [called |-> FALSE, host |-> NotCalled, ret |-> 0, stbuf |-> NoStatfs,
     trap |-> FALSE]

\* The state fuse_main starts from, with loopback.blocksize as main left it:
\* the default (VolIdle) or what the mount options made of it (VolInit).
VolIdle == vfs = NoStatfsCall @@ [blocksize |-> default_blocksize]


\* statfs keeps no state of its own, so one call per behaviour covers every
\* call: the host's answer to it is drawn with the mount options.
VolInit ==
    \E opt \in MountOptions, host \in HostStatfsResults :
        vfs = [NoStatfsCall EXCEPT !.host = host]
              @@ [blocksize |-> fuse_opt_parse(opt)]

\* loopback_statfs (libfuse3), loopback_statfs_x (FUSE 2)
Statfs ==
    \E divzero \in {"trap", "zero"} :
        LET r == loopback_statfs(vfs.host, vfs.blocksize, divzero)
        IN  /\ ~vfs.called
            /\ vfs.host # NotCalled
            /\ vfs' = [vfs EXCEPT !.called = TRUE, !.ret = r.ret,
                                  !.stbuf = r.stbuf, !.trap = r.trap]

(***************************************************************************)
(* Space Preallocator                                                      *)
(***************************************************************************)
\* The bits of mode: PREALLOCATE, ALLOCATECONTIG, ALLOCATEALL,
\* ALLOCATEFROMPEOF and ALLOCATEFROMVOL are tested by the code; FREEREMAINDER
\* and OTHER stand for the bits it never looks at.
ModeBits ==
    {"PREALLOCATE", "ALLOCATECONTIG", "ALLOCATEALL", "FREEREMAINDER",
     "ALLOCATEFROMPEOF", "ALLOCATEFROMVOL", "OTHER"}

\* Error numbers of the host: ENOTSUP returned by the code itself, ENOSPC
\* and EINVAL reported by a failing fcntl.
FErrno == [ENOTSUP |-> 45, ENOSPC |-> 28, EINVAL |-> 22]

\* if (!(mode & PREALLOCATE)) return -ENOTSUP;
preallocate_asked_always(mode) == TRUE

preallocate_asked(mode) == "PREALLOCATE" \in mode

\* fstore.fst_flags
fst_flags(mode) ==
    (IF "ALLOCATECONTIG" \in mode THEN {"F_ALLOCATECONTIG"} ELSE {})
    \cup (IF "ALLOCATEALL" \in mode THEN {"F_ALLOCATEALL"} ELSE {})

\* fstore.fst_posmode: assigned in two of three cases; in the third the
\* field keeps whatever the stack held.
fst_posmode(mode, stack) ==
    IF "ALLOCATEFROMPEOF" \in mode THEN "F_PEOFPOSMODE"
    ELSE IF "ALLOCATEFROMVOL" \in mode THEN "F_VOLPOSMODE"
    ELSE stack

StackValues == {"F_PEOFPOSMODE", "F_VOLPOSMODE", "garbage"}

\* loopback_fallocate.  host is what fcntl(F_PREALLOCATE) answers.
loopback_fallocate(mode, offset, length, host, stack) ==
    IF ~preallocate_asked(mode)
    THEN [ret |-> -FErrno.ENOTSUP, calls |-> <<>>]
    ELSE LET fstore == [fst_flags |-> fst_flags(mode),
                        fst_posmode |-> fst_posmode(mode, stack),
                        fst_offset |-> offset, fst_length |-> length]
         IN  [ret |-> IF host.res = -1 THEN -host.errno ELSE 0,
              calls |-> <<[fn |-> "fcntl", cmd |-> "F_PREALLOCATE",
                           fstore |-> fstore]>>]

FcntlResults ==
    {[res |-> 0, errno |-> 0]}
    \cup {[res |-> -1, errno |-> e] : e \in {FErrno.ENOSPC, FErrno.EINVAL}}

NoFallocate ==
    [called |-> FALSE, mode |-> {}, offset |-> 0, length |-> 0,
     host |-> NotCalled, stack |-> "garbage", ret |-> 0, calls |-> <<>>]

AllocIdle == fa = NoFallocate

\* fallocate keeps no state of its own, so one call per behaviour covers
\* every call: its arguments and the host's answer are drawn at the start.
AllocInit ==
    \E mode \in SUBSET ModeBits, offset \in {0, 8}, length \in {0, 16},
       host \in FcntlResults, stack \in StackValues :
        fa = [NoFallocate EXCEPT !.mode = mode, !.offset = offset,
                                 !.length = length, !.host = host,
                                 !.stack = stack]

\* loopback_fallocate
Fallocate ==
    LET r == loopback_fallocate(fa.mode, fa.offset, fa.length, fa.host,
                                fa.stack)
    IN  /\ ~fa.called
        /\ fa.host # NotCalled
        /\ fa' = [fa EXCEPT !.called = TRUE, !.ret = r.ret,
                            !.calls = r.calls]

\* The variables each specification leaves alone.
exceptDir == <<attrVars, xattrVars, queryVars, volVars, allocVars>>
exceptAttr == <<dirVars, xattrVars, queryVars, volVars, allocVars>>
exceptXattr == <<dirVars, attrVars, queryVars, volVars, allocVars>>
exceptQuery == <<dirVars, attrVars, xattrVars, volVars, allocVars>>
exceptVol == <<dirVars, attrVars, xattrVars, queryVars, allocVars>>
exceptAlloc == <<dirVars, attrVars, xattrVars, queryVars, volVars>>

InitDir ==
    DirInit /\ AttrIdle /\ XattrIdle /\ QueryIdle /\ VolIdle /\ AllocIdle

NextDir ==
    \/ OpenDir /\ UNCHANGED exceptDir
    \/ ReadDir /\ UNCHANGED exceptDir
    \/ ReleaseDir /\ UNCHANGED exceptDir

SpecDir == InitDir /\ [][NextDir]_vars

\* One stream enumerated with and without extended entries.
NextDirPlus ==
    \/ OpenOne /\ UNCHANGED exceptDir
    \/ ReadDirPlus /\ UNCHANGED exceptDir
    \/ ReleaseDir /\ UNCHANGED exceptDir

SpecDirPlus == InitDir /\ [][NextDirPlus]_vars

\* Two streams over the same directory, the statements of their calls
\* interleaved.
NextStreams ==
    \/ OpenStream /\ UNCHANGED exceptDir
    \/ BeginRead /\ UNCHANGED exceptDir
    \/ StepRead /\ UNCHANGED exceptDir
    \/ ReturnRead /\ UNCHANGED exceptDir
    \/ ReleaseDir /\ UNCHANGED exceptDir

SpecStreams == InitDir /\ [][NextStreams]_vars

InitSetattr ==
    DirInit /\ AttrInit /\ XattrIdle /\ QueryIdle /\ VolIdle /\ AllocIdle

NextSetattr ==
    \/ Setattr /\ UNCHANGED exceptAttr
    \/ SetattrX /\ UNCHANGED exceptAttr
    \/ FSetattrX /\ UNCHANGED exceptAttr

SpecSetattr == InitSetattr /\ [][NextSetattr]_vars

InitXattr ==
    DirInit /\ AttrIdle /\ XattrInit /\ QueryIdle /\ VolIdle /\ AllocIdle

NextXattr ==
    \/ SetXattr /\ UNCHANGED exceptXattr
    \/ GetXattr /\ UNCHANGED exceptXattr
    \/ ListXattr /\ UNCHANGED exceptXattr
    \/ RemoveXattr /\ UNCHANGED exceptXattr

SpecXattr == InitXattr /\ [][NextXattr]_vars

InitGetattr ==
    DirInit /\ AttrIdle /\ XattrIdle /\ QueryIdle /\ VolIdle /\ AllocIdle

NextGetattr ==
    \/ Getattr /\ UNCHANGED exceptQuery
    \/ GetattrPath /\ UNCHANGED exceptQuery
    \/ FGetattr /\ UNCHANGED exceptQuery
    \/ Getxtimes /\ UNCHANGED exceptQuery

SpecGetattr == InitGetattr /\ [][NextGetattr]_vars

InitStatfs ==
    DirInit /\ AttrIdle /\ XattrIdle /\ QueryIdle /\ VolInit /\ AllocIdle

NextStatfs == Statfs /\ UNCHANGED exceptVol

SpecStatfs == InitStatfs /\ [][NextStatfs]_vars

InitFallocate ==
    DirInit /\ AttrIdle /\ XattrIdle /\ QueryIdle /\ VolIdle /\ AllocInit

NextFallocate == Fallocate /\ UNCHANGED exceptAlloc

SpecFallocate == InitFallocate /\ [][NextFallocate]_vars

(***************************************************************************)
(* Claims about the Directory Enumerator                                   *)
(***************************************************************************)
IsPrefix(s, t) == Len(s) <= Len(t) /\ \A i \in 1..Len(s) : s[i] = t[i]

AllNames == [i \in 1..DirLen |-> DirEntries[i].d_name]

\* C1: over an unmodified directory, a traversal whose first call uses
\* offset 0 and whose later calls resume from the offset of the last accepted
\* entry accepts the directory's entries in the host's order without
\* duplicate or gap (always a prefix of the directory), and has accepted all
\* of them, each once, when a call reaches the end of the stream.
C1_ExactlyOnce ==
    \A fh \in DOMAIN dirs :
        trav[fh].ok =>
            /\ IsPrefix(trav[fh].acc, AllNames)
            /\ trav[fh].eof => trav[fh].acc = AllNames

\* A traversal completed by a resumed call that was offered its first entry
\* from the buffer left by a full filler.
C1_Witness ==
    \E fh \in DOMAIN dirs :
        /\ trav[fh].ok /\ trav[fh].eof /\ trav[fh].acc = AllNames
        /\ rd.fh = fh /\ rd.offset # 0 /\ rd.pre.entry # NoEntry
        /\ Len(Taken(rd.out)) > 0

\* C2: whatever state the stream is in, a readdir call with offset 0 emits
\* the directory's first entry first and continues in the host's order until
\* the filler is full or the directory ends.
C2_RestartFromFirst ==
    (rd.fh # 0 /\ rd.offset = 0) =>
        /\ Len(rd.out) = Min(rd.room + 1, DirLen)
        /\ \A i \in 1..Len(rd.out) : rd.out[i].e.name = AllNames[i]

\* An offset-0 call on a stream positioned mid-directory with a buffered
\* entry that is not the first one.
C2_Witness ==
    /\ rd.fh # 0 /\ rd.offset = 0
    /\ rd.pre.entry > 1 /\ rd.pre.offset > 0
    /\ Len(rd.out) > 1 /\ rd.out[1].e.name = AllNames[1]

\* An offset-0 call on an exhausted stream.
C2_WitnessExhausted ==
    /\ rd.fh # 0 /\ rd.offset = 0
    /\ rd.pre.entry = NoEntry /\ rd.pre.dp = DirLen
    /\ Len(rd.out) > 0

\* The last call stopped because the filler refused an entry; the refused
\* entry is the last one handed to the filler.
Stopped == rd.fh # 0 /\ ~rd.eof

Refused == rd.out[Len(rd.out)].e

\* C12 (as claimed): when the filler signals stop for an entry, the call
\* returns with the stream holding no buffered entry and with its last-known
\* offset equal to that entry's offset.
C12_StopLeavesNoEntry ==
    Stopped => rd.post.entry = NoEntry /\ rd.post.offset = Refused.off

\* C12 (amended): when the filler signals stop for an entry, the call returns
\* with that entry still buffered in the stream and with the last-known
\* offset not moved past it: the offset of the last entry the filler took in
\* this call, or the call's resume offset when it took none.
C12_StopKeepsEntry ==
    Stopped =>
        /\ rd.post.entry # NoEntry
        /\ DirEntries[rd.post.entry].d_name = Refused.name
        /\ rd.post.offset =
              IF Len(Taken(rd.out)) > 0
              THEN Taken(rd.out)[Len(Taken(rd.out))].e.off
              ELSE rd.offset

C12_Witness == Stopped /\ Len(Taken(rd.out)) > 0 /\ rd.offset > 0

\* The host cursor position just after the entry of the given name: the
\* number of entries the stream has returned once it returned that entry.
PosAfter(name) == CHOOSE k \in 1..DirLen : AllNames[k] = name

\* C13: the +1 offset encoding is applied consistently in both directions:
\* every offset handed to the filler is the host cursor position just after
\* the entry plus one (never 0), every reposition caused by a non-zero
\* resume offset R seeks the host cursor to exactly R - 1, and so a call
\* resumed at an emitted offset continues with the entry immediately
\* following the one that carried it.
C13_OffsetEncoding ==
    rd.fh # 0 =>
        /\ \A i \in 1..Len(rd.out) :
              /\ rd.out[i].e.off = PosAfter(rd.out[i].e.name) + 1
              /\ rd.out[i].e.off # 0
        /\ (rd.offset # 0 /\ rd.offset # rd.pre.offset) =>
              rd.head.dp = rd.offset - 1 /\ rd.head.entry = NoEntry
        /\ rd.offset # 0 =>
              IF rd.offset <= DirLen
              THEN /\ Len(rd.out) > 0
                   /\ PosAfter(rd.out[1].e.name) = rd.offset
              ELSE rd.out = <<>>

C13_Witness ==
    /\ rd.fh # 0 /\ rd.offset > 1 /\ rd.offset # rd.pre.offset
    /\ rd.pre.dp # rd.offset - 1
    /\ Len(Taken(rd.out)) > 0

\* The host cursor position a last-known offset encodes: the start of the
\* stream for 0, else the offset less one.
Decoded(offset) == IF offset = 0 THEN 0 ELSE offset - 1

\* C20: between calls, after any sequence of calls with any resume offsets
\* and stop points, every open stream satisfies: if it holds a buffered
\* entry, that entry is the one immediately following the position its
\* last-known offset encodes (the first entry for offset 0) and the host
\* cursor is just past it; if it holds none, the host cursor is at the
\* position the last-known offset encodes.
C20_CursorInvariant ==
    \A fh \in DOMAIN dirs :
        IF dirs[fh].entry # NoEntry
        THEN /\ dirs[fh].entry = Decoded(dirs[fh].offset) + 1
             /\ dirs[fh].dp = dirs[fh].entry
        ELSE dirs[fh].dp = Decoded(dirs[fh].offset)

C20_Witness ==
    /\ rd.fh \in DOMAIN dirs /\ rd.offset > 1 /\ rd.offset # rd.pre.offset
    /\ rd.pre.entry # NoEntry
    /\ Len(Taken(rd.out)) > 0 /\ ~rd.eof
    /\ dirs[rd.fh] = rd.post /\ dirs[rd.fh].entry # NoEntry

\* C19: with at most one call in flight per handle, calls on two or more
\* distinct open streams (streams over the same directory included), their
\* statements interleaved in any way, never change what any one stream
\* emits: every stream is in the state, and every call has handed to the
\* filler the entries, that the stream's own calls alone produce.
C19_StreamsIndependent ==
    /\ \A fh \in DOMAIN dirs : dirs[fh] = solo[fh]
    /\ \A fh \in DOMAIN inflight : inflight[fh].out = inflight[fh].alone

\* Two streams over the directory, a call in the middle of its loop on each
\* of them, both having handed over entries, at different positions.
C19_Witness ==
    \E g, h \in DOMAIN inflight :
        /\ g # h
        /\ inflight[g].pc = "loop" /\ inflight[h].pc = "loop"
        /\ Len(inflight[g].out) > 0 /\ Len(inflight[h].out) > 0
        /\ dirs[g].offset > 0 /\ dirs[h].offset > dirs[g].offset

(***************************************************************************)
(* Claims about the Combined Attribute Setter                              *)
(***************************************************************************)
SetterReturned == spc \in {"setattr", "setattr_x", "fsetattr_x"}

\* The attributes the host's objects have after the successful calls among
\* cs.
RECURSIVE EffectsOf(_, _)
EffectsOf(objs, cs) ==
    IF cs = <<>> THEN objs
    ELSE EffectsOf(IF Head(cs).res = 0 THEN host_apply_on(objs, Head(cs))
                   ELSE objs,
                   Tail(cs))

\* C3: when a step fails the setter returns the negated errno of exactly
\* that step, the failed call is the last host call it makes, and the effects
\* of the earlier successful calls stay in place (a chown failure after a
\* successful chmod returns the chown error with the new mode in effect).
C3_FirstFailureReturned ==
    SetterReturned =>
        /\ \A i \in 1..Len(scalls) :
                scalls[i].res = -1 =>
                    i = Len(scalls) /\ sret = -scalls[i].errno /\ sret < 0
        /\ sret # 0 => Len(scalls) > 0 /\ scalls[Len(scalls)].res = -1
        /\ (\E i \in 1..Len(scalls) : scalls[i].kind = sreq.fail) =>
                sret = -sreq.errno
        /\ [file |-> file, linkdest |-> linkdest] = EffectsOf(Objs0, scalls)
        /\ ("mode" \in sreq.to_set /\ sreq.fail = "owner" /\ sret # 0) =>
                file.mode = sreq.attr.mode

\* chmod succeeded, chown failed: the chown error is returned, the new mode
\* is in effect and nothing after chown was called.
C3_Witness ==
    /\ SetterReturned
    /\ sreq.to_set = {"mode", "uid", "size", "flags"}
    /\ sreq.fail = "owner" /\ sret = -sreq.errno /\ sret < 0
    /\ Len(scalls) = 2 /\ scalls[2].kind = "owner"
    /\ file.mode = sreq.attr.mode /\ file.mode # File0.mode
    /\ file.size = File0.size

\* The order section 4.4 gives: mode, ownership, size, modify/access time,
\* change-time, creation-time, backup-time, flags.
DocumentedRank(k) ==
    CASE k = "mode" -> 1 [] k = "owner" -> 2 [] k = "size" -> 3
      [] k = "times" -> 4 [] k = "chgtime" -> 5 [] k = "crtime" -> 6
      [] k = "bkuptime" -> 7 [] k = "flags" -> 8

\* C4: in every variant of the setter the host primitives of the present
\* fields are invoked in the order mode, ownership, size, modify/access time,
\* change-time, creation-time, backup-time, flags.
C4_FixedOrder ==
    SetterReturned =>
        \A i, j \in 1..Len(scalls) :
            i < j => DocumentedRank(scalls[i].kind) < DocumentedRank(scalls[j].kind)

\* C5: the setter issues the single ownership-change primitive if and only if
\* owner or group is present in the request, whatever the uid and gid values.
C5_OwnershipIffPresent ==
    (SetterReturned /\ sret = 0) =>
        /\ (\E i \in 1..Len(scalls) : scalls[i].kind = "owner")
                <=> (sreq.to_set \cap {"uid", "gid"} # {})
        /\ Cardinality({i \in 1..Len(scalls) : scalls[i].kind = "owner"}) <= 1

\* C6: if access-time is present and the setter returns 0, the target's
\* access time is the requested value, with or without modify-time present.
C6_AccessTimeApplied ==
    (SetterReturned /\ sret = 0 /\ "atime" \in sreq.to_set) =>
        file.atime = sreq.attr.atime

HandlePrimitives ==
    {"fchmod", "fchown", "ftruncate", "futimes", "fsetattrlist", "fchflags"}

\* C18: every field-setting step uses the handle-based primitive when a
\* handle is supplied and otherwise a path-based primitive that does not
\* follow a final symlink, so that an update of a symlink by path never
\* modifies the link's destination, for any field.
C18_NoFollowForEveryField ==
    SetterReturned =>
        /\ \A i \in 1..Len(scalls) :
              IF sreq.fi THEN scalls[i].fn \in HandlePrimitives
              ELSE /\ scalls[i].fn \notin HandlePrimitives
                   /\ ~host_follows(scalls[i].fn)
        /\ sreq.symlink => linkdest = Dest0

(***************************************************************************)
(* Claims about the Xattr Namespace Mapper                                 *)
(***************************************************************************)
\* The names a caller reads from a name list.
RECURSIVE SplitNames(_)
SplitNames(m) ==
    IF m = <<>> THEN <<>>
    ELSE LET z == nul_at(m, 1)
         IN  IF z = 0 THEN <<m>>
             ELSE <<SubSeq(m, 1, z - 1)>> \o SplitNames(SubSeq(m, z + 1, Len(m)))

\* The last call was a successful list into a real buffer.
FullList ==
    /\ xlast.op = "listxattr"
    /\ xlast.buf.ptr # "NULL" /\ xlast.buf.size > 0
    /\ xlast.ret >= 0

ListedNames == SplitNames(SubSeq(xlast.out, 1, xlast.ret))

SeqRange(q) == {q[i] : i \in 1..Len(q)}

\* C8: after a successful store(N, V) with N beginning com.apple., a full
\* list contains N itself and fetch(N) returns V unchanged.
C8_RoundTrip ==
    (xstored # << >> /\ strncmp_eq(xstored[1].name, ComApple)) =>
        /\ FullList => xstored[1].name \in SeqRange(ListedNames)
        /\ (xlast.op = "getxattr" /\ xlast.name = xstored[1].name) =>
                xlast.ret >= 0 /\ xlast.out = xstored[1].value

\* What section 4.3 says list returns for a host name.
DocumentedListName(hn) ==
    IF strncmp_eq(hn, OrgApple)
    THEN <<"c", "o", "m">> \o SubSeq(hn, 4, Len(hn))
    ELSE hn

\* C9: a full list returns every host name carrying org.apple. with its first
\* three bytes rewritten to com, and every other host name as the host
\* reported it.
C9_ListRewritesAlternate ==
    FullList =>
        ListedNames = [i \in 1..Len(xhost) |-> DocumentedListName(xhost[i].name)]

\* C10: a list call with a null buffer, or with a buffer size of zero (null
\* or non-null pointer), returns the host's byte count and neither reads nor
\* rewrites a byte of the caller's buffer.
C10_ProbeTouchesNothing ==
    (xlast.op = "listxattr" /\ (xlast.buf.ptr = "NULL" \/ xlast.buf.size = 0)) =>
        /\ xlast.ret = Len(host_name_list(xhost))
        /\ ~xlast.read /\ ~xlast.written /\ ~xlast.fault
        /\ xlast.out = xlast.buf.mem

\* The names a full list of the file's host attributes returns now, in the
\* host's order: the i-th is the one the i-th host attribute produced.
ListedNow ==
    LET buf == [ptr |-> "buf", size |-> 12 * MaxXattrs,
                mem |-> [i \in 1..(12 * MaxXattrs) |-> XGarbage]]
        r == loopback_listxattr(xhost, buf)
    IN  SplitNames(SubSeq(r.mem, 1, r.ret))

\* C23: for every name L a full list returns, whatever the host attributes
\* are (those whose own names begin com.apple. included), fetch(L) returns
\* the value of the host attribute whose name produced L, and remove(L)
\* removes that host attribute and no other.
C23_ListedNamesResolve ==
    [][\A i \in 1..Len(xhost) :
          /\ (xlast'.op = "getxattr" /\ xlast'.name = ListedNow[i]) =>
                /\ xlast'.ret = Len(xhost[i].value)
                /\ xlast'.out = xhost[i].value
          /\ (xlast'.op = "removexattr" /\ xlast'.name = ListedNow[i]) =>
                /\ xlast'.ret = 0
                /\ xhost' = SubSeq(xhost, 1, i - 1)
                            \o SubSeq(xhost, i + 1, Len(xhost))]_vars

(***************************************************************************)
(* Claims about the Attribute Translator                                   *)
(***************************************************************************)
\* The attribute queries that deliver a whole attribute record.
AttrQueries == {"getattr", "getattr_path", "fgetattr"}

\* The query half of C11 on its own: what an attribute query answers has
\* block size 0.
QueryBlksizeZero ==
    (ga.op \in AttrQueries /\ ga.ret = 0) => ga.attr.blksize = 0

\* C11: every attribute record delivered, by an attribute query (by path or
\* by handle) and by a directory enumeration with extended (plus) entries,
\* carries an I/O block-size hint of 0, whatever block size the host reports.
C11_BlockSizeHintZero ==
    /\ QueryBlksizeZero
    /\ \A i \in 1..Len(rd.out) :
            rd.out[i].e.plus => rd.out[i].e.attr.blksize = 0

\* The combined fetch of getattr and getattrat failed after the basic status
\* query succeeded.
ListFailed(host) == host.stat.res = 0 /\ host.list.res = -1

\* C17 (as claimed): whenever the basic status query succeeds but the host
\* fails to supply creation time or backup time (either one), the attribute
\* query and the extended-times query still return success and report both
\* creation time and backup time as zero.
C17_BothZeroIfEitherFails ==
    /\ (ga.op = "getattr" /\ ListFailed(ga.host)) =>
          /\ ga.ret = 0
          /\ ga.attr.btime = ZeroTime /\ ga.attr.bkuptime = ZeroTime
    /\ (ga.op = "getxtimes"
            /\ (ga.host.bkup.res = -1 \/ ga.host.crt.res = -1)) =>
          /\ ga.ret = 0
          /\ ga.attr.btime = ZeroTime /\ ga.attr.bkuptime = ZeroTime

\* C17 (amended): a failure to fetch the extended timestamps never fails the
\* query.  The attribute query fetches both with one host call and reports
\* both as zero when that call fails; the extended-times query fetches each
\* with its own host call and reports as zero exactly the timestamp whose
\* call failed, the other as the host supplied it.
C17_XtimesBestEffort ==
    /\ (ga.op = "getattr" /\ ListFailed(ga.host)) =>
          /\ ga.ret = 0
          /\ ga.attr.btime = ZeroTime /\ ga.attr.bkuptime = ZeroTime
    /\ ga.op = "getxtimes" =>
          /\ ga.ret = 0
          /\ ga.attr.bkuptime = IF ga.host.bkup.res = -1 THEN ZeroTime
                                ELSE ga.host.bkup.xtime
          /\ ga.attr.btime = IF ga.host.crt.res = -1 THEN ZeroTime
                             ELSE ga.host.crt.xtime
    /\ \A i \in 1..Len(rd.out) :
          (rd.out[i].e.plus /\ rd.flags.host = "no_xtimes") =>
              /\ rd.out[i].e.attr.btime = ZeroTime
              /\ rd.out[i].e.attr.bkuptime = ZeroTime

C17_Witness ==
    /\ ga.op = "getxtimes" /\ ga.ret = 0
    /\ ga.host.bkup.res = -1 /\ ga.host.crt.res = 0
    /\ ga.attr.bkuptime = ZeroTime /\ ga.attr.btime # ZeroTime

(***************************************************************************)
(* Claims about the Volume Stats Normaliser                                *)
(***************************************************************************)
\* The call answered: the host call succeeded and the process was not
\* killed by a division trap.
StatfsSucceeded == vfs.called /\ vfs.host.res = 0 /\ ~vfs.trap /\ vfs.ret = 0

\* floor(count * hostBlockSize / logicalBlockSize) over the integers.
Rescaled(count) == (count * vfs.host.stbuf.f_bsize) \div vfs.blocksize

\* C14: on success the call reports total, available and free block counts
\* each equal to floor(hostCount * hostBlockSize / logicalBlockSize), with
\* the block size the host returned for all three, and reports the logical
\* block size as the block size; on host failure it returns the negated host
\* error.
C14_RescaledCounts ==
    /\ (vfs.called /\ vfs.host.res = -1) => vfs.ret = -vfs.host.errno
    /\ StatfsSucceeded =>
          /\ vfs.blocksize > 0
          /\ vfs.stbuf.f_blocks = Rescaled(vfs.host.stbuf.f_blocks)
          /\ vfs.stbuf.f_bavail = Rescaled(vfs.host.stbuf.f_bavail)
          /\ vfs.stbuf.f_bfree = Rescaled(vfs.host.stbuf.f_bfree)
          /\ vfs.stbuf.f_bsize = vfs.blocksize

\* What does hold of the three counts: the same quotient with the product
\* reduced to the width of the count, for a positive logical block size.
RescaledInCountWidth ==
    (StatfsSucceeded /\ vfs.blocksize > 0) =>
        /\ vfs.stbuf.f_blocks =
              wrap(vfs.host.stbuf.f_blocks * vfs.host.stbuf.f_bsize, CountBits)
                  \div vfs.blocksize
        /\ vfs.stbuf.f_bavail =
              wrap(vfs.host.stbuf.f_bavail * vfs.host.stbuf.f_bsize, CountBits)
                  \div vfs.blocksize
        /\ vfs.stbuf.f_bfree =
              wrap(vfs.host.stbuf.f_bfree * vfs.host.stbuf.f_bsize, CountBits)
                  \div vfs.blocksize
        /\ vfs.stbuf.f_bsize = vfs.blocksize

\* C15: for every host total block count and host block size the host
\* record can hold and every positive logical block size, the reported total
\* (computed in the fields' fixed-width arithmetic) times the logical block
\* size differs from the host's total times the host's block size by less
\* than one logical block.
C15_WithinOneBlock ==
    (StatfsSucceeded /\ vfs.blocksize > 0) =>
        LET host_bytes == vfs.host.stbuf.f_blocks * vfs.host.stbuf.f_bsize
            reported_bytes == vfs.stbuf.f_blocks * vfs.blocksize
        IN  /\ host_bytes - reported_bytes < vfs.blocksize
            /\ reported_bytes - host_bytes < vfs.blocksize

\* What does hold: the reported capacity is within one logical block of the
\* host's capacity reduced to the width of the count.
WithinOneBlockOfWrapped ==
    (StatfsSucceeded /\ vfs.blocksize > 0) =>
        LET host_bytes ==
                wrap(vfs.host.stbuf.f_blocks * vfs.host.stbuf.f_bsize,
                     CountBits)
            reported_bytes == vfs.stbuf.f_blocks * vfs.blocksize
        IN  /\ 0 <= host_bytes - reported_bytes
            /\ host_bytes - reported_bytes < vfs.blocksize

\* C22: loopback.blocksize, the divisor of statfs, is positive in every
\* state from the start of fuse_main on, whatever value of fsblocksize the
\* option parser accepted (0 included) and when the option is absent; no
\* statfs call divides by zero.
C22_BlocksizePositive ==
    /\ vfs.blocksize > 0
    /\ ~vfs.trap

(***************************************************************************)
(* Claims about the Space Preallocator                                     *)
(***************************************************************************)
\* C16: for every mode whose preallocation bit is clear, whatever other bits
\* are set, the call returns not-supported and issues no host control
\* operation.
C16_NotSupportedWithoutBit ==
    (fa.called /\ "PREALLOCATE" \notin fa.mode) =>
        fa.ret = -FErrno.ENOTSUP /\ fa.calls = <<>>

C16_Witness ==
    /\ fa.called /\ "PREALLOCATE" \notin fa.mode
    /\ {"ALLOCATECONTIG", "ALLOCATEFROMVOL", "OTHER"} \subseteq fa.mode
    /\ fa.host.res = 0


\* C21: whenever fallocate issues fcntl(F_PREALLOCATE), the fst_posmode of
\* the fstore it passes was assigned from the mode bits of the request: it
\* is one of the host's position modes and it is the same whatever the
\* stack held before the call, for every mode with PREALLOCATE set, those
\* with neither ALLOCATEFROMPEOF nor ALLOCATEFROMVOL included.
C21_PosmodeAssigned ==
    (fa.called /\ fa.calls # <<>>) =>
        /\ fa.calls[1].fstore.fst_posmode \in {"F_PEOFPOSMODE", "F_VOLPOSMODE"}
        /\ \A stack \in StackValues :
              fa.calls[1].fstore.fst_posmode = fst_posmode(fa.mode, stack)
====
